---- MODULE Spec2Model ----
(***************************************************************************)
(* A model of the Rust binding of the Unicorn emulator                    *)
(* (bindings/rust/src/lib.rs): the reference-counted engine handle, its   *)
(* hook list and MMIO-scope list, and the calls it makes into the native  *)
(* engine.  The native engine is the environment: each native entry point *)
(* is an operator named after the C function it stands for.               *)
(***************************************************************************)
EXTENDS Integers, Sequences, FiniteSets, TLC

(***************************************************************************)
(* Bounds of the model.                                                    *)
(***************************************************************************)
\* total number of boxed closures (UcHook boxes) ever allocated in one run
MaxBoxes == 3
\* number of distinct hook tokens the native engine hands out
MaxTok == 2
\* how many times the destructor body of UnicornInner is run at most
MaxDtor == 2
\* largest number of bits in a hook-type value passed to add_mem_hook
MaxBits == 2
\* the native address space of the model has the pages 0 .. MaxPage-1
MaxPage == 3
\* sizes passed to the memory operations span 0 .. MaxSizePages pages
MaxSizePages == 2
\* the offset that makes an address or a size unaligned
Misalign == 2048
\* MMIO scopes an instance holds at one time
MaxScopes == 2
\* register ids passed to reg_read_long span -1 .. MaxRegId
MaxRegId == 262
\* native context blobs allocated in one behaviour
MaxBlobs == 3
\* largest value written to a register
MaxValue == 1

\* "`address` must be aligned to 4kb", "`size` must be a multiple of 4kb"
PAGE == 4096

VARIABLES
    caller,         \* the caller's handle: "start", "held", "failed", "dropped"
    inner,          \* the Rc allocation of UnicornInner: "none", "alive", "destroyed"
    uc,             \* UnicornInner.uc: "NULL" or "H"
    arch,           \* UnicornInner.arch
    hooks,          \* UnicornInner.hooks: sequence of [tok, box]
    mmio_callbacks, \* UnicornInner.mmio_callbacks: sequence of scopes
    dropped,        \* boxes that have been freed
    nextBox,        \* id of the next box to allocate
    closeCount,     \* number of calls of the native uc_close
    dtorRuns,       \* number of runs of Drop::drop of UnicornInner
    nhooks,         \* native engine: registered hooks, set of [tok, ud, fires]
    npage,          \* native engine: the mapping of each page
    running,        \* the native engine is inside uc_emu_start
    stack,          \* boxes of the closures executing now (innermost last)
    last,           \* the last operation: [op, res, native, arg]
    badInvoke,      \* boxes whose closure was invoked after the box was freed
    doubleFree,     \* boxes freed a second time
    contexts,       \* the Context values made: sequence of [context, blob, drops]
    blobs           \* native context blobs: sequence of [frees, saved]

vars == <<caller, inner, uc, arch, hooks, mmio_callbacks, dropped, nextBox,
          closeCount, dtorRuns, nhooks, npage, running, stack, last,
          badInvoke, doubleFree, contexts, blobs>>

\* the Context values and the native blobs behind them
ctxvars == <<contexts, blobs>>

\* everything but the Context values and the blobs
enginevars == <<caller, inner, uc, arch, hooks, mmio_callbacks, dropped,
                nextBox, closeCount, dtorRuns, nhooks, npage, running, stack,
                badInvoke, doubleFree>>

(***************************************************************************)
(* consts.rs vocabulary (the file is not part of the given sources).       *)
(***************************************************************************)
Archs == {"ARM", "ARM64", "MIPS", "X86", "PPC", "SPARC", "M68K", "RISCV"}

\* the bits of HookType
HookBits == {"INTR", "INSN", "CODE", "BLOCK",
             "MEM_READ_UNMAPPED", "MEM_WRITE_UNMAPPED", "MEM_FETCH_UNMAPPED",
             "MEM_READ_PROT", "MEM_WRITE_PROT", "MEM_FETCH_PROT",
             "MEM_READ", "MEM_WRITE", "MEM_FETCH", "MEM_READ_AFTER"}

MEM_ALL == {"MEM_READ_UNMAPPED", "MEM_WRITE_UNMAPPED", "MEM_FETCH_UNMAPPED",
            "MEM_READ_PROT", "MEM_WRITE_PROT", "MEM_FETCH_PROT",
            "MEM_READ", "MEM_WRITE", "MEM_FETCH"}

MEM_READ_AFTER == {"MEM_READ_AFTER"}

\* bitflags: a | b
BitOr(a, b) == a \cup b

\* bitflags: a.contains(b), every bit of b is set in a
Contains(a, b) == b \subseteq a

\* bitflags: a.intersects(b), some bit is set in both
Intersects(a, b) == a \cap b # {}

\* the hook-type values the model passes to add_mem_hook
HookTypeInputs == {ht \in SUBSET HookBits : Cardinality(ht) <= MaxBits}

(***************************************************************************)
(* Boxes.                                                                  *)
(***************************************************************************)
NoBox == [kind |-> "null", id |-> 0]

NewBox(kind) == [kind |-> kind, id |-> nextBox]

\* the boxes owned by the hook list
HookBoxes == {hooks[i].box : i \in 1..Len(hooks)}

\* the boxes owned by the MMIO scopes
MmioBoxes == ({mmio_callbacks[i].read_callback : i \in 1..Len(mmio_callbacks)}
              \cup {mmio_callbacks[i].write_callback : i \in 1..Len(mmio_callbacks)})
             \ {NoBox}

\* every UcHook box holds `uc: Unicorn { inner: self.inner.clone() }`
OwnedBoxes == HookBoxes \cup MmioBoxes

\* Rc strong count of the UnicornInner allocation
StrongCount == (IF caller = "held" THEN 1 ELSE 0) + Cardinality(OwnedBoxes)

\* freeing the boxes bs: a box freed before is freed twice
Freed(bs) == dropped \cup bs

TwiceFreed(bs) == doubleFree \cup (bs \cap dropped)

(***************************************************************************)
(* The native engine (ffi.rs declares it; the engine itself is external).  *)
(***************************************************************************)
Tokens == 1..MaxTok

\* uc_open: the engine accepts or refuses the architecture and mode
uc_open(a) == {"OK", "ARCH", "MODE"}

\* uc_hook_add: a token not in use, or a refusal
uc_hook_add(reg) ==
    {[err |-> "OK", tok |-> t] : t \in Tokens \ {h.tok : h \in reg}}
    \cup {[err |-> e, tok |-> 0] : e \in {"NOMEM", "HOOK"}}

\* uc_hook_del: the engine forgets the token
uc_hook_del(reg, hook) ==
    IF \E h \in reg : h.tok = hook
    THEN {[err |-> "OK", reg |-> {h \in reg : h.tok # hook}]}
    ELSE {[err |-> e, reg |-> reg] : e \in {"OK", "HOOK"}}

\* the pages of the native address space, and an unmapped page
Pages == 0..(MaxPage - 1)

NoPage == [kind |-> "none", perms |-> 0, rud |-> NoBox, wud |-> NoBox,
           rcb |-> "NULL", wcb |-> "NULL"]

NoPages == [p \in Pages |-> NoPage]

\* the pages of [address, address+size), for an aligned range
PagesOf(address, size) ==
    {p \in Pages : address <= p * PAGE /\ p * PAGE < address + size}

Aligned(x) == x % PAGE = 0

\* the range fits the address space of the model
InSpace(address, size) == address + size <= MaxPage * PAGE

\* uc_mem_map: the engine requires an aligned,
\* non-empty range that overlaps no mapping; page is the mapping to record
uc_mem_map(mem, address, size, page) ==
    IF ~Aligned(address) \/ ~Aligned(size) \/ size = 0
    THEN {[err |-> "ARG", mem |-> mem]}
    ELSE IF \E p \in PagesOf(address, size) : mem[p].kind # "none"
    THEN {[err |-> "MAP", mem |-> mem]}
    ELSE {[err |-> "NOMEM", mem |-> mem],
          [err |-> "OK",
           mem |-> [p \in Pages |->
                      IF p \in PagesOf(address, size) THEN page ELSE mem[p]]]}

\* uc_mem_map_ptr: as uc_mem_map, over the caller's buffer
uc_mem_map_ptr(mem, address, size, page) == uc_mem_map(mem, address, size, page)

\* uc_mmio_map: as uc_mem_map; page carries the user-data pointers given
\* with the read and the write trampoline
uc_mmio_map(mem, address, size, page) == uc_mem_map(mem, address, size, page)

\* uc_mem_unmap: an aligned range, all of it mapped; an empty range is
\* nothing to unmap, whether the engine looks at its address or not
uc_mem_unmap(mem, address, size) ==
    IF size = 0
    THEN {[err |-> e, mem |-> mem] :
             e \in IF Aligned(address) THEN {"OK"} ELSE {"OK", "ARG"}}
    ELSE IF ~Aligned(address) \/ ~Aligned(size)
    THEN {[err |-> "ARG", mem |-> mem]}
    ELSE IF \E p \in PagesOf(address, size) : mem[p].kind = "none"
    THEN {[err |-> "NOMEM", mem |-> mem]}
    ELSE {[err |-> "OK",
           mem |-> [p \in Pages |->
                      IF p \in PagesOf(address, size) THEN NoPage ELSE mem[p]]]}

\* uc_mem_protect: an aligned range, all of it mapped; an empty range is
\* nothing to change
uc_mem_protect(mem, address, size, perms) ==
    IF size = 0
    THEN {[err |-> e, mem |-> mem] :
             e \in IF Aligned(address) THEN {"OK"} ELSE {"OK", "ARG"}}
    ELSE IF ~Aligned(address) \/ ~Aligned(size)
    THEN {[err |-> "ARG", mem |-> mem]}
    ELSE IF \E p \in PagesOf(address, size) : mem[p].kind = "none"
    THEN {[err |-> "NOMEM", mem |-> mem]}
    ELSE {[err |-> "OK",
           mem |-> [p \in Pages |->
                      IF p \in PagesOf(address, size)
                      THEN [mem[p] EXCEPT !.perms = perms] ELSE mem[p]]]}

(***************************************************************************)
(* Who may call the handle: the caller between runs, or the closure that   *)
(* is executing, through the aliasing handle its box carries.              *)
(***************************************************************************)
CallerTurn == inner = "alive" /\ caller = "held" /\ ~running

ClosureTurn == inner = "alive" /\ running /\ stack # <<>>

CanCall == CallerTurn \/ ClosureTurn

\* a result that loses the error
result_of_ok(err) == "OK"

\* `if err == uc_error::OK { Ok(..) } else { Err(err) }`
result_of(err) == err

Result(op, res, native, arg) ==
    [op |-> op, res |-> res, native |-> native, arg |-> arg]

(***************************************************************************)
(* Construction and destruction.                                           *)
(***************************************************************************)
Init ==
    /\ caller = "start"
    /\ inner = "none"
    /\ uc = "NULL"
    /\ arch = "MAX"
    /\ hooks = <<>>
    /\ mmio_callbacks = <<>>
    /\ dropped = {}
    /\ nextBox = 1
    /\ closeCount = 0
    /\ dtorRuns = 0
    /\ nhooks = {}
    /\ npage = NoPages
    /\ running = FALSE
    /\ stack = <<>>
    /\ last = Result("none", "OK", {}, 0)
    /\ badInvoke = {}
    /\ doubleFree = {}
    /\ contexts = <<>>
    /\ blobs = <<>>

\* a constructor that wraps the null handle of a failed open
new_with_data_wrap(a) ==
    /\ caller = "start"
    /\ \E err \in uc_open(a) :
        /\ caller' = "held"
        /\ inner' = "alive"
        /\ uc' = IF err = "OK" THEN "H" ELSE "NULL"
        /\ arch' = a
        /\ hooks' = <<>>
        /\ mmio_callbacks' = <<>>
        /\ last' = Result("new_with_data", err, {"uc_open"}, a)
    /\ UNCHANGED ctxvars
    /\ UNCHANGED <<dropped, nextBox, closeCount, dtorRuns, nhooks, npage, running,
                   stack, badInvoke, doubleFree>>

\* Unicorn::new_with_data
new_with_data(a) ==
    /\ caller = "start"
    /\ \E err \in uc_open(a) :
        /\ IF err = "OK"
           THEN /\ caller' = "held"
                /\ inner' = "alive"
                /\ uc' = "H"
                /\ arch' = a
           ELSE /\ caller' = "failed"
                /\ UNCHANGED <<inner, uc, arch>>
        /\ hooks' = <<>>
        /\ mmio_callbacks' = <<>>
        /\ last' = Result("new_with_data", result_of(err), {"uc_open"}, a)
    /\ UNCHANGED ctxvars
    /\ UNCHANGED <<dropped, nextBox, closeCount, dtorRuns, nhooks, npage, running,
                   stack, badInvoke, doubleFree>>

\* a destructor that closes without looking at the pointer
UnicornInner_drop_unchecked(p) == 1

\* Drop for UnicornInner: the number of uc_close calls it makes for pointer p
UnicornInner_drop(p) == IF p # "NULL" THEN 1 ELSE 0

\* dropping the caller's handle: Rc decrements, and the last owner destroys
\* the UnicornInner (Drop::drop, then its fields)
drop_handle ==
    /\ CallerTurn
    /\ caller' = "dropped"
    /\ IF StrongCount = 1
       THEN /\ inner' = "destroyed"
            /\ closeCount' = closeCount + UnicornInner_drop(uc)
            /\ dtorRuns' = dtorRuns + 1
            /\ uc' = "NULL"
            /\ nhooks' = {}
            /\ npage' = NoPages
            /\ hooks' = <<>>
            /\ mmio_callbacks' = <<>>
            /\ dropped' = Freed(OwnedBoxes)
            /\ doubleFree' = TwiceFreed(OwnedBoxes)
       ELSE UNCHANGED <<inner, closeCount, dtorRuns, uc, nhooks, npage, hooks,
                        mmio_callbacks, dropped, doubleFree>>
    /\ last' = Result("drop", "OK", {}, 0)
    /\ UNCHANGED ctxvars
    /\ UNCHANGED <<arch, nextBox, running, stack, badInvoke>>

\* Drop::drop of UnicornInner run once more on the destroyed record
drop_again ==
    /\ inner = "destroyed"
    /\ dtorRuns < MaxDtor
    /\ closeCount' = closeCount + UnicornInner_drop(uc)
    /\ dtorRuns' = dtorRuns + 1
    /\ uc' = "NULL"
    /\ last' = Result("drop_again", "OK", {}, 0)
    /\ UNCHANGED ctxvars
    /\ UNCHANGED <<caller, inner, arch, hooks, mmio_callbacks, dropped, nextBox,
                   nhooks, npage, running, stack, badInvoke, doubleFree>>

(***************************************************************************)
(* Hooks.                                                                  *)
(***************************************************************************)
\* a registration that puts the new entry at the front of the hook list and
\* keeps the box of a refused hook
hook_add_front(op, arg, fires) ==
    /\ CanCall
    /\ nextBox <= MaxBoxes
    /\ \E r \in uc_hook_add(nhooks) :
        LET user_data == NewBox("hook") IN
        /\ nextBox' = nextBox + 1
        /\ IF r.err = "OK"
           THEN /\ hooks' = <<[tok |-> r.tok, box |-> user_data]>> \o hooks
                /\ nhooks' = nhooks \cup
                       {[tok |-> r.tok, ud |-> user_data, fires |-> fires]}
           ELSE UNCHANGED <<hooks, nhooks>>
        /\ UNCHANGED <<dropped, doubleFree>>
        /\ last' = Result(op, result_of(r.err), {"uc_hook_add"}, <<arg, r.tok>>)
    /\ UNCHANGED ctxvars
    /\ UNCHANGED <<caller, inner, uc, arch, mmio_callbacks, closeCount,
                   dtorRuns, npage, running, stack, badInvoke>>

\* the common body of the seven add_*_hook operations: box the closure with
\* a clone of the handle, call uc_hook_add, keep the box on success
hook_add(op, arg, fires) ==
    /\ CanCall
    /\ nextBox <= MaxBoxes
    /\ \E r \in uc_hook_add(nhooks) :
        LET user_data == NewBox("hook") IN
        /\ nextBox' = nextBox + 1
        /\ IF r.err = "OK"
           THEN /\ hooks' = Append(hooks, [tok |-> r.tok, box |-> user_data])
                /\ nhooks' = nhooks \cup
                       {[tok |-> r.tok, ud |-> user_data, fires |-> fires]}
                /\ UNCHANGED <<dropped, doubleFree>>
           ELSE /\ dropped' = Freed({user_data})
                /\ doubleFree' = TwiceFreed({user_data})
                /\ UNCHANGED <<hooks, nhooks>>
        /\ last' = Result(op, result_of(r.err), {"uc_hook_add"}, <<arg, r.tok>>)
    /\ UNCHANGED ctxvars
    /\ UNCHANGED <<caller, inner, uc, arch, mmio_callbacks, closeCount,
                   dtorRuns, npage, running, stack, badInvoke>>

add_code_hook == hook_add("add_code_hook", {"CODE"}, TRUE)

add_block_hook == hook_add("add_block_hook", {"BLOCK"}, TRUE)

add_intr_hook == hook_add("add_intr_hook", {"INTR"}, TRUE)

add_insn_in_hook == hook_add("add_insn_in_hook", {"INSN"}, TRUE)

add_insn_out_hook == hook_add("add_insn_out_hook", {"INSN"}, TRUE)

add_insn_sys_hook == hook_add("add_insn_sys_hook", {"INSN"}, TRUE)

\* the check with its negation lost
mem_hook_refused_inverted(hook_type) ==
    Contains(BitOr(MEM_ALL, MEM_READ_AFTER), hook_type)

\* the check as an intersection test
mem_hook_refused_disjoint(hook_type) ==
    ~Intersects(BitOr(MEM_ALL, MEM_READ_AFTER), hook_type)

\* the up-front check of add_mem_hook: TRUE when the hook type is refused
mem_hook_refused(hook_type) ==
    ~Contains(BitOr(MEM_ALL, MEM_READ_AFTER), hook_type)

add_mem_hook(hook_type) ==
    IF mem_hook_refused(hook_type)
    THEN /\ CanCall
         /\ last' = Result("add_mem_hook", "ARG", {}, <<hook_type, 0>>)
         /\ UNCHANGED ctxvars
         /\ UNCHANGED <<caller, inner, uc, arch, hooks, mmio_callbacks, dropped,
                        nextBox, closeCount, dtorRuns, nhooks, npage, running, stack,
                        badInvoke, doubleFree>>
    ELSE hook_add("add_mem_hook", hook_type, hook_type # {})

\* remove_hook that drops the entry and never tells the engine
remove_hook_no_del(hook) ==
    /\ CanCall
    /\ LET gone == {hooks[i].box : i \in {j \in 1..Len(hooks) : hooks[j].tok = hook}}
       IN /\ hooks' = SelectSeq(hooks, LAMBDA h : h.tok # hook)
          /\ dropped' = Freed(gone)
          /\ doubleFree' = TwiceFreed(gone)
          /\ last' = Result("remove_hook", "OK", {}, <<hook, Cardinality(gone)>>)
    /\ UNCHANGED ctxvars
    /\ UNCHANGED <<caller, inner, uc, arch, mmio_callbacks, nextBox, closeCount,
                   dtorRuns, nhooks, npage, running, stack, badInvoke>>

\* Unicorn::remove_hook: retain drops the entries of the token, then the
\* engine is asked to delete it
remove_hook(hook) ==
    /\ CanCall
    /\ LET gone == {hooks[i].box : i \in {j \in 1..Len(hooks) : hooks[j].tok = hook}}
       IN /\ hooks' = SelectSeq(hooks, LAMBDA h : h.tok # hook)
          /\ dropped' = Freed(gone)
          /\ doubleFree' = TwiceFreed(gone)
          /\ \E r \in uc_hook_del(nhooks, hook) :
                /\ nhooks' = r.reg
                /\ last' = Result("remove_hook", result_of(r.err), {"uc_hook_del"},
                                  <<hook, Cardinality(gone)>>)
    /\ UNCHANGED ctxvars
    /\ UNCHANGED <<caller, inner, uc, arch, mmio_callbacks, nextBox, closeCount,
                   dtorRuns, npage, running, stack, badInvoke>>

(***************************************************************************)
(* Memory.                                                                 *)
(***************************************************************************)
\* the addresses and sizes the model passes: aligned and unaligned
Offsets == {0, Misalign}

Addrs == {p * PAGE + d : p \in Pages, d \in Offsets}

Sizes == {k * PAGE + d : k \in 0..MaxSizePages, d \in Offsets}

\* Permission bits: READ and ALL
Perms == {1, 7}

\* Unicorn::mem_map
mem_map(address, size, perms) ==
    /\ CanCall
    /\ InSpace(address, size)
    /\ \E r \in uc_mem_map(npage, address, size,
                           [kind |-> "ram", perms |-> perms,
                            rud |-> NoBox, wud |-> NoBox,
                            rcb |-> "NULL", wcb |-> "NULL"]) :
        /\ npage' = r.mem
        /\ last' = Result("mem_map", result_of(r.err), {"uc_mem_map"},
                          <<address, size>>)
    /\ UNCHANGED ctxvars
    /\ UNCHANGED <<caller, inner, uc, arch, hooks, mmio_callbacks, dropped,
                   nextBox, closeCount, dtorRuns, nhooks, running, stack,
                   badInvoke, doubleFree>>

\* Unicorn::mem_map_ptr
mem_map_ptr(address, size, perms) ==
    /\ CanCall
    /\ InSpace(address, size)
    /\ \E r \in uc_mem_map_ptr(npage, address, size,
                               [kind |-> "ram", perms |-> perms,
                                rud |-> NoBox, wud |-> NoBox,
                            rcb |-> "NULL", wcb |-> "NULL"]) :
        /\ npage' = r.mem
        /\ last' = Result("mem_map_ptr", result_of(r.err), {"uc_mem_map_ptr"},
                          <<address, size>>)
    /\ UNCHANGED ctxvars
    /\ UNCHANGED <<caller, inner, uc, arch, hooks, mmio_callbacks, dropped,
                   nextBox, closeCount, dtorRuns, nhooks, running, stack,
                   badInvoke, doubleFree>>

\* Unicorn::mem_protect
mem_protect(address, size, perms) ==
    /\ CanCall
    /\ InSpace(address, size)
    /\ \E r \in uc_mem_protect(npage, address, size, perms) :
        /\ npage' = r.mem
        /\ last' = Result("mem_protect", result_of(r.err), {"uc_mem_protect"},
                          <<address, size>>)
    /\ UNCHANGED ctxvars
    /\ UNCHANGED <<caller, inner, uc, arch, hooks, mmio_callbacks, dropped,
                   nextBox, closeCount, dtorRuns, nhooks, running, stack,
                   badInvoke, doubleFree>>

\* Unicorn::mmio_map: rd and wd say which closures are Some
\* the read and the write trampoline argument of the uc_mmio_map call, for
\* a closure that was (TRUE) or was not (FALSE) supplied
mmio_read_arg(rd) == "mmio_read_callback_proxy"

mmio_write_arg(wd) == "mmio_write_callback_proxy"

\* a mapping that records the scope with the closures exchanged
mmio_map_op_swapped(op, address, size, rd, wd) ==
    /\ CanCall
    /\ InSpace(address, size)
    /\ Len(mmio_callbacks) < MaxScopes
    /\ nextBox + (IF rd THEN 1 ELSE 0) + (IF wd THEN 1 ELSE 0) <= MaxBoxes + 1
    /\ LET read_data == IF rd THEN NewBox("mmio") ELSE NoBox
           write_data == IF wd
                         THEN [kind |-> "mmio", id |-> nextBox + (IF rd THEN 1 ELSE 0)]
                         ELSE NoBox
           made == {read_data, write_data} \ {NoBox}
       IN /\ nextBox' = nextBox + Cardinality(made)
          /\ \E r \in uc_mmio_map(npage, address, size,
                                  [kind |-> "mmio", perms |-> 7,
                                   rud |-> read_data, wud |-> write_data,
                                   rcb |-> mmio_read_arg(rd),
                                   wcb |-> mmio_write_arg(wd)]) :
              /\ npage' = r.mem
              /\ mmio_callbacks' = IF r.err = "OK"
                                   THEN Append(mmio_callbacks,
                                          [regions |-> << <<address, size>> >>,
                                           read_callback |-> write_data,
                                           write_callback |-> read_data])
                                   ELSE mmio_callbacks
              /\ UNCHANGED <<dropped, doubleFree>>
              /\ last' = Result(op, result_of(r.err), {"uc_mmio_map"},
                                <<address, size, rd, wd>>)
    /\ UNCHANGED ctxvars
    /\ UNCHANGED <<caller, inner, uc, arch, hooks, closeCount, dtorRuns, nhooks,
                   running, stack, badInvoke>>

mmio_map_op(op, address, size, rd, wd) ==
    /\ CanCall
    /\ InSpace(address, size)
    /\ Len(mmio_callbacks) < MaxScopes
    /\ nextBox + (IF rd THEN 1 ELSE 0) + (IF wd THEN 1 ELSE 0) <= MaxBoxes + 1
    /\ LET read_data == IF rd THEN NewBox("mmio") ELSE NoBox
           write_data == IF wd
                         THEN [kind |-> "mmio", id |-> nextBox + (IF rd THEN 1 ELSE 0)]
                         ELSE NoBox
           made == {read_data, write_data} \ {NoBox}
       IN /\ nextBox' = nextBox + Cardinality(made)
          /\ \E r \in uc_mmio_map(npage, address, size,
                                  [kind |-> "mmio", perms |-> 7,
                                   rud |-> read_data, wud |-> write_data,
                                   rcb |-> mmio_read_arg(rd),
                                   wcb |-> mmio_write_arg(wd)]) :
              /\ npage' = r.mem
              /\ IF r.err = "OK"
                 THEN /\ mmio_callbacks' = Append(mmio_callbacks,
                             [regions |-> << <<address, size>> >>,
                              read_callback |-> read_data,
                              write_callback |-> write_data])
                      /\ UNCHANGED <<dropped, doubleFree>>
                 ELSE /\ dropped' = Freed(made)
                      /\ doubleFree' = TwiceFreed(made)
                      /\ UNCHANGED mmio_callbacks
              /\ last' = Result(op, result_of(r.err), {"uc_mmio_map"},
                                <<address, size, rd, wd>>)
    /\ UNCHANGED ctxvars
    /\ UNCHANGED <<caller, inner, uc, arch, hooks, closeCount, dtorRuns, nhooks,
                   running, stack, badInvoke>>

mmio_map(address, size, rd, wd) == mmio_map_op("mmio_map", address, size, rd, wd)

mmio_map_ro(address, size) == mmio_map_op("mmio_map_ro", address, size, TRUE, FALSE)

mmio_map_wo(address, size) == mmio_map_op("mmio_map_wo", address, size, FALSE, TRUE)

\* the closure with the second fragment starting at end
unmap_region_at_end(b, s, begin, size) ==
    LET end == begin + size
        e == b + s
    IN IF begin > b
       THEN IF begin >= e
            THEN <<>>
            ELSE IF end >= e
                 THEN << <<b, begin - b>> >>
                 ELSE << <<b, begin - b>>, <<end, e - end>> >>
       ELSE IF end > b
            THEN IF end >= e
                 THEN <<>>
                 ELSE << <<end, e - end>> >>
            ELSE << <<b, s>> >>

\* the closure keeping a region that lies before the unmapped range
unmap_region_keep_before(b, s, begin, size) ==
    LET end == begin + size
        e == b + s
    IN IF begin > b
       THEN IF begin >= e
            THEN << <<b, s>> >>
            ELSE IF end >= e
                 THEN << <<b, begin - b>> >>
                 ELSE LET second_b == end + 1
                      IN << <<b, begin - b>>, <<second_b, e - second_b>> >>
       ELSE IF end > b
            THEN IF end >= e
                 THEN <<>>
                 ELSE << <<end, e - end>> >>
            ELSE << <<b, s>> >>

\* the closure of MmioCallbackScope::unmap: the fragments of the region
\* (b, s) that survive the unmapping of [begin, begin+size)
unmap_region(b, s, begin, size) ==
    LET end == begin + size
        e == b + s
    IN IF begin > b
       THEN IF begin >= e
            THEN <<>>
            ELSE IF end >= e
                 THEN << <<b, begin - b>> >>
                 ELSE LET second_b == end + 1
                      IN << <<b, begin - b>>, <<second_b, e - second_b>> >>
       ELSE IF end > b
            THEN IF end >= e
                 THEN <<>>
                 ELSE << <<end, e - end>> >>
            ELSE << <<b, s>> >>

\* MmioCallbackScope::unmap: flat_map of the closure over the regions
RECURSIVE unmap(_, _, _)
unmap(regions, begin, size) ==
    IF regions = <<>> THEN <<>>
    ELSE unmap_region(Head(regions)[1], Head(regions)[2], begin, size)
         \o unmap(Tail(regions), begin, size)

\* a test that lets every scope stay
has_regions_always(scope) == TRUE

\* MmioCallbackScope::has_regions
has_regions(scope) == Len(scope.regions) > 0

\* Unicorn::mmio_unmap: the scope list after the call
mmio_unmap(scopes, address, size) ==
    SelectSeq([i \in 1..Len(scopes) |->
                  [scopes[i] EXCEPT !.regions = unmap(@, address, size)]],
              has_regions)

\* the boxes of a scope list
ScopeBoxes(scopes) ==
    ({scopes[i].read_callback : i \in 1..Len(scopes)}
     \cup {scopes[i].write_callback : i \in 1..Len(scopes)}) \ {NoBox}

\* Unicorn::mem_unmap
mem_unmap(address, size) ==
    /\ CanCall
    /\ InSpace(address, size)
    /\ \E r \in uc_mem_unmap(npage, address, size) :
        /\ npage' = r.mem
        /\ last' = Result("mem_unmap", result_of(r.err), {"uc_mem_unmap"},
                          <<address, size>>)
    /\ mmio_callbacks' = mmio_unmap(mmio_callbacks, address, size)
    /\ LET gone == MmioBoxes \ ScopeBoxes(mmio_callbacks')
       IN /\ dropped' = Freed(gone)
          /\ doubleFree' = TwiceFreed(gone)
    /\ UNCHANGED ctxvars
    /\ UNCHANGED <<caller, inner, uc, arch, hooks, nextBox, closeCount, dtorRuns,
                   nhooks, running, stack, badInvoke>>

\* the engine reaches an MMIO page: the read or the write trampoline is
\* called with the user-data pointer given at uc_mmio_map
mmio_event ==
    /\ running
    /\ stack = <<>>
    /\ \E p \in Pages, d \in {"read", "write"} :
        /\ npage[p].kind = "mmio"
        /\ (IF d = "read" THEN npage[p].rcb ELSE npage[p].wcb) # "NULL"
        /\ LET ud == IF d = "read" THEN npage[p].rud ELSE npage[p].wud
           IN /\ stack' = IF ud = NoBox THEN <<>> ELSE <<ud>>
              /\ badInvoke' = IF ud = NoBox \/ ud \in dropped
                              THEN badInvoke \cup {ud} ELSE badInvoke
        /\ last' = Result("mmio_event", "OK", {}, <<p, d>>)
    /\ UNCHANGED ctxvars
    /\ UNCHANGED <<caller, inner, uc, arch, hooks, mmio_callbacks, dropped,
                   nextBox, closeCount, dtorRuns, nhooks, npage, running,
                   doubleFree>>

(***************************************************************************)
(* Registers.  x86.rs and arm64.rs are not part of the given sources; the  *)
(* ids are those of the native engine's register tables.                  *)
(***************************************************************************)
X86_ST0 == 114
X86_ST7 == 121
X86_XMM0 == 122
X86_XMM31 == 153
X86_YMM0 == 154
X86_YMM31 == 185
X86_ZMM0 == 186
X86_ZMM31 == 217
X86_IDTR == 242
X86_GDTR == 243
ARM64_Q0 == 104
ARM64_Q31 == 135
ARM64_V0 == 228
ARM64_V31 == 259

RegIds == (-1)..MaxRegId

\* uc_reg_read: the engine fills the buffer or refuses the register
uc_reg_read == {"OK", "ARG"}

\* the choice of length with YMM registers read as XMM registers
reg_read_long_len_ymm_as_xmm(curr_arch, curr_reg_id) ==
    IF curr_arch = "X86"
    THEN IF curr_reg_id >= X86_XMM0 /\ curr_reg_id <= X86_YMM31
         THEN [err |-> "OK", len |-> 16]
         ELSE IF curr_reg_id >= X86_ZMM0 /\ curr_reg_id <= X86_ZMM31
         THEN [err |-> "OK", len |-> 64]
         ELSE IF \/ curr_reg_id = X86_GDTR
                 \/ curr_reg_id = X86_IDTR
                 \/ (curr_reg_id >= X86_ST0 /\ curr_reg_id <= X86_ST7)
         THEN [err |-> "OK", len |-> 10]
         ELSE [err |-> "ARG", len |-> 0]
    ELSE IF curr_arch = "ARM64"
    THEN IF \/ (curr_reg_id >= ARM64_Q0 /\ curr_reg_id <= ARM64_Q31)
            \/ (curr_reg_id >= ARM64_V0 /\ curr_reg_id <= ARM64_V31)
         THEN [err |-> "OK", len |-> 16]
         ELSE [err |-> "ARG", len |-> 0]
    ELSE [err |-> "ARCH", len |-> 0]

\* the head of Unicorn::reg_read_long: the length of the buffer it builds
\* for (curr_arch, curr_reg_id), or the error it returns at once
reg_read_long_len(curr_arch, curr_reg_id) ==
    IF curr_arch = "X86"
    THEN IF curr_reg_id >= X86_XMM0 /\ curr_reg_id <= X86_XMM31
         THEN [err |-> "OK", len |-> 16]
         ELSE IF curr_reg_id >= X86_YMM0 /\ curr_reg_id <= X86_YMM31
         THEN [err |-> "OK", len |-> 32]
         ELSE IF curr_reg_id >= X86_ZMM0 /\ curr_reg_id <= X86_ZMM31
         THEN [err |-> "OK", len |-> 64]
         ELSE IF \/ curr_reg_id = X86_GDTR
                 \/ curr_reg_id = X86_IDTR
                 \/ (curr_reg_id >= X86_ST0 /\ curr_reg_id <= X86_ST7)
         THEN [err |-> "OK", len |-> 10]
         ELSE [err |-> "ARG", len |-> 0]
    ELSE IF curr_arch = "ARM64"
    THEN IF \/ (curr_reg_id >= ARM64_Q0 /\ curr_reg_id <= ARM64_Q31)
            \/ (curr_reg_id >= ARM64_V0 /\ curr_reg_id <= ARM64_V31)
         THEN [err |-> "OK", len |-> 16]
         ELSE [err |-> "ARG", len |-> 0]
    ELSE [err |-> "ARCH", len |-> 0]

\* Unicorn::reg_read_long
reg_read_long(regid) ==
    /\ CanCall
    /\ LET value == reg_read_long_len(arch, regid)
       IN IF value.err # "OK"
          THEN last' = Result("reg_read_long", value.err, {}, <<regid, 0>>)
          ELSE \E err \in uc_reg_read :
                  last' = Result("reg_read_long", result_of(err), {"uc_reg_read"},
                                 <<regid, value.len>>)
    /\ UNCHANGED ctxvars
    /\ UNCHANGED <<caller, inner, uc, arch, hooks, mmio_callbacks, dropped,
                   nextBox, closeCount, dtorRuns, nhooks, npage, running, stack,
                   badInvoke, doubleFree>>

(***************************************************************************)
(* Register catalogs: each enum as the sequence of its variants with their *)
(* discriminants, each block of associated constants as the sequence of    *)
(* <<alias, the variant it is defined as>>.                                *)
(***************************************************************************)
\* mips::Register
mips_Register == <<
    <<"INVALID", 0>>, <<"PC", 1>>, <<"GPR0", 2>>, <<"GPR1", 3>>, <<"GPR2",
    4>>, <<"GPR3", 5>>, <<"GPR4", 6>>, <<"GPR5", 7>>, <<"GPR6", 8>>,
    <<"GPR7", 9>>, <<"GPR8", 10>>, <<"GPR9", 11>>, <<"GPR10", 12>>,
    <<"GPR11", 13>>, <<"GPR12", 14>>, <<"GPR13", 15>>, <<"GPR14", 16>>,
    <<"GPR15", 17>>, <<"GPR16", 18>>, <<"GPR17", 19>>, <<"GPR18", 20>>,
    <<"GPR19", 21>>, <<"GPR20", 22>>, <<"GPR21", 23>>, <<"GPR22", 24>>,
    <<"GPR23", 25>>, <<"GPR24", 26>>, <<"GPR25", 27>>, <<"GPR26", 28>>,
    <<"GPR27", 29>>, <<"GPR28", 30>>, <<"GPR29", 31>>, <<"GPR30", 32>>,
    <<"GPR31", 33>>, <<"DSPCCOND", 34>>, <<"DSPCARRY", 35>>, <<"DSPEFI",
    36>>, <<"DSPOUTFLAG", 37>>, <<"DSPOUTFLAG16_19", 38>>, <<"DSPOUTFLAG20",
    39>>, <<"DSPOUTFLAG21", 40>>, <<"DSPOUTFLAG22", 41>>, <<"DSPOUTFLAG23",
    42>>, <<"DSPPOS", 43>>, <<"DSPSCOUNT", 44>>, <<"AC0", 45>>, <<"AC1",
    46>>, <<"AC2", 47>>, <<"AC3", 48>>, <<"CC0", 49>>, <<"CC1", 50>>,
    <<"CC2", 51>>, <<"CC3", 52>>, <<"CC4", 53>>, <<"CC5", 54>>, <<"CC6",
    55>>, <<"CC7", 56>>, <<"F0", 57>>, <<"F1", 58>>, <<"F2", 59>>, <<"F3",
    60>>, <<"F4", 61>>, <<"F5", 62>>, <<"F6", 63>>, <<"F7", 64>>, <<"F8",
    65>>, <<"F9", 66>>, <<"F10", 67>>, <<"F11", 68>>, <<"F12", 69>>,
    <<"F13", 70>>, <<"F14", 71>>, <<"F15", 72>>, <<"F16", 73>>, <<"F17",
    74>>, <<"F18", 75>>, <<"F19", 76>>, <<"F20", 77>>, <<"F21", 78>>,
    <<"F22", 79>>, <<"F23", 80>>, <<"F24", 81>>, <<"F25", 82>>, <<"F26",
    83>>, <<"F27", 84>>, <<"F28", 85>>, <<"F29", 86>>, <<"F30", 87>>,
    <<"F31", 88>>, <<"FCC0", 89>>, <<"FCC1", 90>>, <<"FCC2", 91>>, <<"FCC3",
    92>>, <<"FCC4", 93>>, <<"FCC5", 94>>, <<"FCC6", 95>>, <<"FCC7", 96>>,
    <<"W0", 97>>, <<"W1", 98>>, <<"W2", 99>>, <<"W3", 100>>, <<"W4", 101>>,
    <<"W5", 102>>, <<"W6", 103>>, <<"W7", 104>>, <<"W8", 105>>, <<"W9",
    106>>, <<"W10", 107>>, <<"W11", 108>>, <<"W12", 109>>, <<"W13", 110>>,
    <<"W14", 111>>, <<"W15", 112>>, <<"W16", 113>>, <<"W17", 114>>, <<"W18",
    115>>, <<"W19", 116>>, <<"W20", 117>>, <<"W21", 118>>, <<"W22", 119>>,
    <<"W23", 120>>, <<"W24", 121>>, <<"W25", 122>>, <<"W26", 123>>, <<"W27",
    124>>, <<"W28", 125>>, <<"W29", 126>>, <<"W30", 127>>, <<"W31", 128>>,
    <<"HI", 129>>, <<"LO", 130>>, <<"P0", 131>>, <<"P1", 132>>, <<"P2",
    133>>, <<"MPL0", 134>>, <<"MPL1", 135>>, <<"MPL2", 136>>,
    <<"CP0_CONFIG3", 137>>, <<"CP0_USERLOCAL", 138>>, <<"CP0_STATUS", 139>>,
    <<"ENDING", 140>>
    >>

\* the associated constants of mips::Register
mips_alias == <<
    <<"ZERO", "GPR0">>, <<"AT", "GPR1">>, <<"V0", "GPR2">>, <<"V1",
    "GPR3">>, <<"A0", "GPR4">>, <<"A1", "GPR5">>, <<"A2", "GPR6">>, <<"A3",
    "GPR7">>, <<"T0", "GPR8">>, <<"T1", "GPR9">>, <<"T2", "GPR10">>, <<"T3",
    "GPR11">>, <<"T4", "GPR12">>, <<"T5", "GPR13">>, <<"T6", "GPR14">>,
    <<"T7", "GPR15">>, <<"S0", "GPR16">>, <<"S1", "GPR17">>, <<"S2",
    "GPR18">>, <<"S3", "GPR19">>, <<"S4", "GPR20">>, <<"S5", "GPR21">>,
    <<"S6", "GPR22">>, <<"S7", "GPR23">>, <<"T8", "GPR24">>, <<"T9",
    "GPR25">>, <<"K0", "GPR26">>, <<"K1", "GPR27">>, <<"GP", "GPR28">>,
    <<"SP", "GPR29">>, <<"FP", "GPR30">>, <<"S8", "GPR30">>, <<"RA",
    "GPR31">>, <<"HI0", "AC0">>, <<"HI1", "AC1">>, <<"HI2", "AC2">>,
    <<"HI3", "AC3">>, <<"LO0", "AC0">>, <<"LO1", "AC1">>, <<"LO2", "AC2">>,
    <<"LO3", "AC3">>
    >>

\* riscv::Register
riscv_Register == <<
    <<"INVALID", 0>>, <<"X0", 1>>, <<"X1", 2>>, <<"X2", 3>>, <<"X3", 4>>,
    <<"X4", 5>>, <<"X5", 6>>, <<"X6", 7>>, <<"X7", 8>>, <<"X8", 9>>, <<"X9",
    10>>, <<"X10", 11>>, <<"X11", 12>>, <<"X12", 13>>, <<"X13", 14>>,
    <<"X14", 15>>, <<"X15", 16>>, <<"X16", 17>>, <<"X17", 18>>, <<"X18",
    19>>, <<"X19", 20>>, <<"X20", 21>>, <<"X21", 22>>, <<"X22", 23>>,
    <<"X23", 24>>, <<"X24", 25>>, <<"X25", 26>>, <<"X26", 27>>, <<"X27",
    28>>, <<"X28", 29>>, <<"X29", 30>>, <<"X30", 31>>, <<"X31", 32>>,
    <<"F0", 33>>, <<"F1", 34>>, <<"F2", 35>>, <<"F3", 36>>, <<"F4", 37>>,
    <<"F5", 38>>, <<"F6", 39>>, <<"F7", 40>>, <<"F8", 41>>, <<"F9", 42>>,
    <<"F10", 43>>, <<"F11", 44>>, <<"F12", 45>>, <<"F13", 46>>, <<"F14",
    47>>, <<"F15", 48>>, <<"F16", 49>>, <<"F17", 50>>, <<"F18", 51>>,
    <<"F19", 52>>, <<"F20", 53>>, <<"F21", 54>>, <<"F22", 55>>, <<"F23",
    56>>, <<"F24", 57>>, <<"F25", 58>>, <<"F26", 59>>, <<"F27", 60>>,
    <<"F28", 61>>, <<"F29", 62>>, <<"F30", 63>>, <<"F31", 64>>, <<"PC",
    65>>, <<"ENDING", 66>>
    >>

\* the associated constants of riscv::Register
riscv_alias == <<
    <<"ZERO", "X0">>, <<"RA", "X1">>, <<"SP", "X2">>, <<"GP", "X3">>,
    <<"TP", "X4">>, <<"T0", "X5">>, <<"T1", "X6">>, <<"T2", "X7">>, <<"S0",
    "X8">>, <<"FP", "X8">>, <<"S1", "X9">>, <<"A0", "X10">>, <<"A1",
    "X11">>, <<"A2", "X12">>, <<"A3", "X13">>, <<"A4", "X14">>, <<"A5",
    "X15">>, <<"A6", "X16">>, <<"A7", "X17">>, <<"S2", "X18">>, <<"S3",
    "X19">>, <<"S4", "X20">>, <<"S5", "X21">>, <<"S6", "X22">>, <<"S7",
    "X23">>, <<"S8", "X24">>, <<"S9", "X25">>, <<"S10", "X26">>, <<"S11",
    "X27">>, <<"T3", "X28">>, <<"T4", "X29">>, <<"T5", "X30">>, <<"T6",
    "X31">>, <<"FT0", "F0">>, <<"FT1", "F1">>, <<"FT2", "F2">>, <<"FT3",
    "F3">>, <<"FT4", "F4">>, <<"FT5", "F5">>, <<"FT6", "F6">>, <<"FT7",
    "F7">>, <<"FS0", "F8">>, <<"FS1", "F9">>, <<"FA0", "F10">>, <<"FA1",
    "F11">>, <<"FA2", "F12">>, <<"FA3", "F13">>, <<"FA4", "F14">>, <<"FA5",
    "F15">>, <<"FA6", "F16">>, <<"FA7", "F17">>, <<"FS2", "F18">>, <<"FS3",
    "F19">>, <<"FS4", "F20">>, <<"FS5", "F21">>, <<"FS6", "F22">>, <<"FS7",
    "F23">>, <<"FS8", "F24">>, <<"FS9", "F25">>, <<"FS10", "F26">>,
    <<"FS11", "F27">>, <<"FT8", "F28">>, <<"FT9", "F29">>, <<"FT10",
    "F30">>, <<"FT11", "F31">>
    >>

\* m68k::Register: INVALID = 0, every later variant one more than the one
\* before it
m68k_Register == <<
    "INVALID", "A0", "A1", "A2", "A3", "A4", "A5", "A6", "A7", "D0", "D1",
    "D2", "D3", "D4", "D5", "D6", "D7", "SR", "PC"
    >>

\* `r as i32` for a variant of an enum with written discriminants
Discriminant(catalog, name) ==
    LET i == CHOOSE k \in 1..Len(catalog) : catalog[k][1] = name
    IN catalog[i][2]

\* `r as i32` for a variant of m68k::Register
m68k_Discriminant(name) ==
    LET i == CHOOSE k \in 1..Len(m68k_Register) : m68k_Register[k] = name
    IN i - 1

\* an alias whose value is a number of its own, past the variants
AliasValue_fresh(catalog, alias, a) ==
    LET i == CHOOSE k \in 1..Len(alias) : alias[k][1] = a
    IN Len(catalog) + i

\* the value of an associated constant: that of the variant it names
AliasValue(catalog, alias, a) ==
    LET i == CHOOSE k \in 1..Len(alias) : alias[k][1] = a
    IN Discriminant(catalog, alias[i][2])

\* the variants and the associated constants of a catalog, by name
Variants(catalog) == {catalog[k][1] : k \in 1..Len(catalog)}

Aliases(alias) == {alias[k][1] : k \in 1..Len(alias)}

\* `regid.into()` for a variant or an associated constant of mips::Register
\* or riscv::Register
RegisterId(c, name) ==
    LET catalog == IF c = "mips" THEN mips_Register ELSE riscv_Register
        alias == IF c = "mips" THEN mips_alias ELSE riscv_alias
    IN IF name \in Variants(catalog)
       THEN Discriminant(catalog, name)
       ELSE AliasValue(catalog, alias, name)

\* the registers of the two catalogs, by catalog and name
CatalogRegs ==
    {<<"mips", n>> : n \in Variants(mips_Register) \cup Aliases(mips_alias)}
    \cup {<<"riscv", n>> : n \in Variants(riscv_Register) \cup Aliases(riscv_alias)}

\* Unicorn::reg_read of a register of a catalog: the engine is handed its id
reg_read_id(c, name) ==
    /\ CanCall
    /\ \E err \in uc_reg_read :
          last' = Result("reg_read_id", result_of(err), {"uc_reg_read"},
                         <<c, name, RegisterId(c, name)>>)
    /\ UNCHANGED ctxvars
    /\ UNCHANGED enginevars

\* the `match arch` of pc_read: the register of each architecture, or the
\* panic of Arch::MAX
pc_read_reg(a) ==
    CASE a = "X86" -> [panic |-> FALSE, catalog |-> "x86", name |-> "RIP"]
      [] a = "ARM" -> [panic |-> FALSE, catalog |-> "arm", name |-> "PC"]
      [] a = "ARM64" -> [panic |-> FALSE, catalog |-> "arm64", name |-> "PC"]
      [] a = "MIPS" -> [panic |-> FALSE, catalog |-> "mips", name |-> "PC"]
      [] a = "SPARC" -> [panic |-> FALSE, catalog |-> "sparc", name |-> "PC"]
      [] a = "M68K" -> [panic |-> FALSE, catalog |-> "m68k", name |-> "PC"]
      [] a = "PPC" -> [panic |-> FALSE, catalog |-> "ppc", name |-> "PC"]
      [] a = "RISCV" -> [panic |-> FALSE, catalog |-> "riscv", name |-> "PC"]
      [] a = "MAX" -> [panic |-> TRUE, catalog |-> "", name |-> ""]

\* a pc_write that takes the status register on M68K
pc_write_reg_sr(a) ==
    IF a = "M68K"
    THEN [panic |-> FALSE, catalog |-> "m68k", name |-> "SR"]
    ELSE pc_read_reg(a)

\* the `match arch` of pc_write
pc_write_reg(a) ==
    CASE a = "X86" -> [panic |-> FALSE, catalog |-> "x86", name |-> "RIP"]
      [] a = "ARM" -> [panic |-> FALSE, catalog |-> "arm", name |-> "PC"]
      [] a = "ARM64" -> [panic |-> FALSE, catalog |-> "arm64", name |-> "PC"]
      [] a = "MIPS" -> [panic |-> FALSE, catalog |-> "mips", name |-> "PC"]
      [] a = "SPARC" -> [panic |-> FALSE, catalog |-> "sparc", name |-> "PC"]
      [] a = "M68K" -> [panic |-> FALSE, catalog |-> "m68k", name |-> "PC"]
      [] a = "PPC" -> [panic |-> FALSE, catalog |-> "ppc", name |-> "PC"]
      [] a = "RISCV" -> [panic |-> FALSE, catalog |-> "riscv", name |-> "PC"]
      [] a = "MAX" -> [panic |-> TRUE, catalog |-> "", name |-> ""]

\* the registers the 64-bit operations are given here, and the values written
Regs == {pc_read_reg(a) : a \in Archs}
        \cup {[panic |-> FALSE, catalog |-> "m68k", name |-> "SR"]}

Values == 0..MaxValue

\* uc_reg_write
uc_reg_write == {"OK", "ARG"}

\* the body of Unicorn::reg_read, for the operation op that runs it
reg_read_call(op, reg) ==
    /\ \E err \in uc_reg_read :
          last' = Result(op, result_of(err), {"uc_reg_read"},
                         <<reg.catalog, reg.name, 0>>)
    /\ UNCHANGED ctxvars
    /\ UNCHANGED enginevars

\* the body of Unicorn::reg_write
reg_write_call(op, reg, value) ==
    /\ \E err \in uc_reg_write :
          last' = Result(op, result_of(err), {"uc_reg_write"},
                         <<reg.catalog, reg.name, value>>)
    /\ UNCHANGED ctxvars
    /\ UNCHANGED enginevars

\* Unicorn::reg_read
reg_read(reg) == CanCall /\ reg_read_call("reg_read", reg)

\* Unicorn::reg_write
reg_write(reg, value) == CanCall /\ reg_write_call("reg_write", reg, value)

\* a panic of the calling thread: the operation returns nothing
panic(op, value) ==
    /\ last' = Result(op, "PANIC", {}, <<"", "", value>>)
    /\ UNCHANGED ctxvars
    /\ UNCHANGED enginevars

\* Unicorn::pc_read
pc_read ==
    /\ CanCall
    /\ LET reg == pc_read_reg(arch)
       IN IF reg.panic
          THEN panic("pc_read", 0)
          ELSE reg_read_call("pc_read", reg)

\* Unicorn::pc_write
pc_write(value) ==
    /\ CanCall
    /\ LET reg == pc_write_reg(arch)
       IN IF reg.panic
          THEN panic("pc_write", value)
          ELSE reg_write_call("pc_write", reg, value)

(***************************************************************************)
(* Contexts: a Context owns the pointer to a native blob; 0 is the null    *)
(* pointer, blob i the i-th blob uc_context_alloc handed out.              *)
(***************************************************************************)
\* uc_context_alloc: a fresh blob, or no memory
uc_context_alloc == {"OK", "NOMEM"}

\* uc_context_save and uc_context_restore
uc_context_save == {"OK", "HANDLE"}

\* uc_context_free(context): one more free of the blob
uc_context_free(bs, context) ==
    [bs EXCEPT ![context] = [@ EXCEPT !.frees = @ + 1]]

NewBlob == [frees |-> 0, saved |-> FALSE]

\* a destructor that frees and keeps the pointer
Context_drop_keep(context) ==
    [free |-> IF context # 0 THEN {context} ELSE {}, context |-> context]

\* Drop for Context: the blob it frees, and the pointer it leaves
Context_drop(context) ==
    [free |-> IF context # 0 THEN {context} ELSE {}, context |-> 0]

\* Unicorn::context_alloc
context_alloc ==
    /\ CanCall
    /\ Len(blobs) < MaxBlobs
    /\ \E err \in uc_context_alloc :
        /\ IF err = "OK"
           THEN LET empty_context == Len(blobs) + 1
                IN /\ blobs' = Append(blobs, NewBlob)
                   /\ contexts' = Append(contexts,
                          [context |-> empty_context, blob |-> empty_context,
                           drops |-> 0])
           ELSE UNCHANGED <<contexts, blobs>>
        /\ last' = Result("context_alloc", result_of(err), {"uc_context_alloc"},
                          Len(blobs'))
    /\ UNCHANGED enginevars

\* Unicorn::context_save
context_save(c) ==
    /\ CanCall
    /\ c \in 1..Len(contexts)
    /\ contexts[c].drops = 0
    /\ \E err \in uc_context_save :
        /\ blobs' = IF err = "OK"
                    THEN [blobs EXCEPT ![contexts[c].context].saved = TRUE]
                    ELSE blobs
        /\ last' = Result("context_save", result_of(err), {"uc_context_save"}, c)
    /\ UNCHANGED contexts
    /\ UNCHANGED enginevars

\* Unicorn::context_init
context_init ==
    /\ CanCall
    /\ Len(blobs) < MaxBlobs
    /\ \E err \in uc_context_alloc :
        IF err # "OK"
        THEN /\ UNCHANGED <<contexts, blobs>>
             /\ last' = Result("context_init", err, {"uc_context_alloc"}, 0)
        ELSE LET new_context == Len(blobs) + 1
                 made == Append(blobs, NewBlob)
             IN \E err2 \in uc_context_save :
                  IF err2 = "OK"
                  THEN /\ blobs' = [made EXCEPT ![new_context].saved = TRUE]
                       /\ contexts' = Append(contexts,
                              [context |-> new_context, blob |-> new_context,
                               drops |-> 0])
                       /\ last' = Result("context_init", "OK",
                              {"uc_context_alloc", "uc_context_save"}, new_context)
                  ELSE /\ blobs' = uc_context_free(made, new_context)
                       /\ UNCHANGED contexts
                       /\ last' = Result("context_init", err2,
                              {"uc_context_alloc", "uc_context_save",
                               "uc_context_free"}, new_context)
    /\ UNCHANGED enginevars

\* Unicorn::context_restore
context_restore(c) ==
    /\ CanCall
    /\ c \in 1..Len(contexts)
    /\ contexts[c].drops = 0
    /\ \E err \in uc_context_save :
          last' = Result("context_restore", result_of(err),
                         {"uc_context_restore"}, c)
    /\ UNCHANGED <<contexts, blobs>>
    /\ UNCHANGED enginevars

\* Drop::drop of Context c: when the caller drops it, and run once more on
\* the dropped value
Context_drop_run(c) ==
    /\ c \in 1..Len(contexts)
    /\ contexts[c].drops < MaxDtor
    /\ LET d == Context_drop(contexts[c].context)
       IN /\ blobs' = IF d.free = {}
                      THEN blobs
                      ELSE uc_context_free(blobs, contexts[c].context)
          /\ contexts' = [contexts EXCEPT ![c].context = d.context,
                                          ![c].drops = @ + 1]
          /\ last' = Result("context_drop", "OK",
                            IF d.free = {} THEN {} ELSE {"uc_context_free"}, c)
    /\ UNCHANGED enginevars

(***************************************************************************)
(* Execution: uc_emu_start hands control to the native engine, which calls *)
(* the trampolines of the registered hooks until it returns.               *)
(***************************************************************************)
emu_start ==
    /\ CallerTurn
    /\ running' = TRUE
    /\ last' = Result("emu_start", "OK", {"uc_emu_start"}, 0)
    /\ UNCHANGED ctxvars
    /\ UNCHANGED <<caller, inner, uc, arch, hooks, mmio_callbacks, dropped,
                   nextBox, closeCount, dtorRuns, nhooks, npage, stack, badInvoke,
                   doubleFree>>

\* the trampoline of a hook the engine holds: it calls the closure in the box
\* the user-data pointer names
hook_event ==
    /\ running
    /\ stack = <<>>
    /\ \E h \in nhooks :
        /\ h.fires
        /\ stack' = <<h.ud>>
        /\ badInvoke' = IF h.ud \in dropped THEN badInvoke \cup {h.ud} ELSE badInvoke
        /\ last' = Result("hook_event", "OK", {}, h.tok)
    /\ UNCHANGED ctxvars
    /\ UNCHANGED <<caller, inner, uc, arch, hooks, mmio_callbacks, dropped,
                   nextBox, closeCount, dtorRuns, nhooks, npage, running, doubleFree>>

\* the closure returns to the engine
closure_return ==
    /\ running
    /\ stack # <<>>
    /\ stack' = SubSeq(stack, 1, Len(stack) - 1)
    /\ last' = Result("closure_return", "OK", {}, 0)
    /\ UNCHANGED ctxvars
    /\ UNCHANGED <<caller, inner, uc, arch, hooks, mmio_callbacks, dropped,
                   nextBox, closeCount, dtorRuns, nhooks, npage, running, badInvoke,
                   doubleFree>>

\* uc_emu_start returns, with success or with the engine's error
emu_return ==
    /\ running
    /\ stack = <<>>
    /\ running' = FALSE
    /\ \E err \in {"OK", "READ_UNMAPPED"} :
          last' = Result("emu_return", err, {}, 0)
    /\ UNCHANGED ctxvars
    /\ UNCHANGED <<caller, inner, uc, arch, hooks, mmio_callbacks, dropped,
                   nextBox, closeCount, dtorRuns, nhooks, npage, stack, badInvoke,
                   doubleFree>>

(***************************************************************************)
(* Specifications.                                                         *)
(***************************************************************************)
HookNext ==
    \/ new_with_data("X86")
    \/ drop_handle
    \/ drop_again
    \/ add_code_hook
    \/ add_block_hook
    \/ add_intr_hook
    \/ add_insn_in_hook
    \/ add_insn_out_hook
    \/ add_insn_sys_hook
    \/ \E ht \in HookTypeInputs : add_mem_hook(ht)
    \/ \E t \in Tokens : remove_hook(t)
    \/ emu_start
    \/ hook_event
    \/ closure_return
    \/ emu_return

SpecHook == Init /\ [][HookNext]_vars

MemNext ==
    \/ new_with_data("X86")
    \/ drop_handle
    \/ \E a \in Addrs, n \in Sizes, q \in Perms : mem_map(a, n, q)
    \/ \E a \in Addrs, n \in Sizes, q \in Perms : mem_map_ptr(a, n, q)
    \/ \E a \in Addrs, n \in Sizes, q \in Perms : mem_protect(a, n, q)
    \/ \E a \in Addrs, n \in Sizes : mem_unmap(a, n)

SpecMem == Init /\ [][MemNext]_vars

RegNext ==
    \/ \E a \in Archs \cup {"MAX"} : new_with_data(a)
    \/ drop_handle
    \/ \E regid \in RegIds : reg_read_long(regid)

SpecReg == Init /\ [][RegNext]_vars

UnmapNext ==
    \/ new_with_data("X86")
    \/ drop_handle
    \/ \E a \in Addrs, n \in Sizes : mmio_map_ro(a, n)
    \/ \E a \in Addrs, n \in Sizes : mem_unmap(a, n)

SpecUnmap == Init /\ [][UnmapNext]_vars

PcNext ==
    \/ \E a \in Archs \cup {"MAX"} : new_with_data(a)
    \/ drop_handle
    \/ pc_read
    \/ \E v \in Values : pc_write(v)
    \/ \E reg \in Regs : reg_read(reg)
    \/ \E reg \in Regs, v \in Values : reg_write(reg, v)

SpecPc == Init /\ [][PcNext]_vars

CatalogNext ==
    \/ \E a \in {"MIPS", "RISCV"} : new_with_data(a)
    \/ drop_handle
    \/ \E r \in CatalogRegs : reg_read_id(r[1], r[2])

SpecCatalog == Init /\ [][CatalogNext]_vars

CtxNext ==
    \/ new_with_data("X86")
    \/ drop_handle
    \/ context_alloc
    \/ context_init
    \/ \E c \in 1..MaxBlobs : context_save(c)
    \/ \E c \in 1..MaxBlobs : context_restore(c)
    \/ \E c \in 1..MaxBlobs : Context_drop_run(c)

SpecCtx == Init /\ [][CtxNext]_vars

\* the page-aligned addresses and sizes
PageAddrs == {q * PAGE : q \in Pages}

PageSizes == {k * PAGE : k \in 1..MaxSizePages}

ScopeNext ==
    \/ new_with_data("X86")
    \/ drop_handle
    \/ \E a \in PageAddrs, n \in PageSizes : mmio_map(a, n, TRUE, TRUE)
    \/ \E a \in PageAddrs, n \in PageSizes : mmio_map_ro(a, n)
    \/ \E a \in Addrs, n \in Sizes : mem_unmap(a, n)

SpecScope == Init /\ [][ScopeNext]_vars

MmioNext ==
    \/ new_with_data("X86")
    \/ drop_handle
    \/ \E a \in Addrs, n \in Sizes, rd \in BOOLEAN, wd \in BOOLEAN :
          mmio_map(a, n, rd, wd)
    \/ \E a \in Addrs, n \in Sizes : mmio_map_ro(a, n)
    \/ \E a \in Addrs, n \in Sizes : mmio_map_wo(a, n)
    \/ emu_start
    \/ mmio_event
    \/ closure_return
    \/ emu_return

SpecMmio == Init /\ [][MmioNext]_vars

\* every operation of the binding; the properties below are checked under
\* the component specifications above, each over the operations it concerns
\* A length that ends a range one byte short of a half page
ShortSizes == {Misalign - 1}

RegionNext ==
    \/ new_with_data("X86")
    \/ drop_handle
    \/ \E a \in PageAddrs, n \in PageSizes : mmio_map_ro(a, n)
    \/ \E a \in Addrs, n \in PageSizes \cup ShortSizes : mem_unmap(a, n)

SpecRegion == Init /\ [][RegionNext]_vars

Next ==
    \/ HookNext
    \/ MemNext
    \/ RegNext
    \/ UnmapNext
    \/ ScopeNext
    \/ RegionNext
    \/ PcNext
    \/ CatalogNext
    \/ CtxNext
    \/ MmioNext

Spec == Init /\ [][Next]_vars


(***************************************************************************)
(* Claims.                                                                 *)
(***************************************************************************)
\* C1: once remove_hook(token) has returned, with Ok or with an error, the
\* hook list holds no entry of the token and the engine no registration of
\* it; no trampoline ever runs the closure of a freed hook box, no hook box
\* is freed twice, and a remove_hook of a token that is not in the hook list
\* leaves the hook list as it is and frees nothing.
C1_RemovedHookNeverInvoked ==
    /\ [](/\ \A b \in badInvoke \cup doubleFree : b.kind # "hook"
          /\ \A h \in nhooks : h.ud \notin dropped
          /\ last.op = "remove_hook" =>
                /\ \A i \in 1..Len(hooks) : hooks[i].tok # last.arg[1]
                /\ \A h \in nhooks : h.tok # last.arg[1])
    /\ [][(/\ last'.op = "remove_hook"
           /\ \A i \in 1..Len(hooks) : hooks[i].tok # last'.arg[1])
          => (hooks' = hooks /\ dropped' = dropped /\ last'.arg[2] = 0)]_vars

\* C1 witness: the one closure ever registered removed its own hook while
\* it ran, and a further remove_hook found nothing and returned an error
C1_Witness ==
    /\ last.op = "remove_hook"
    /\ last.res = "HOOK"
    /\ last.arg[2] = 0
    /\ nextBox = 2
    /\ Len(stack) = 1
    /\ stack[1] \in dropped

\* C2: once the caller has dropped every handle it holds, the native instance
\* is eventually closed (uc_close is called) and every closure the instance
\* owns is dropped: in a state where the caller holds no handle and no step
\* is left to take, the close has happened and no closure is left.
C2_ClosedOnceCallerDropped ==
    (caller = "dropped" /\ ~ENABLED HookNext)
    => (closeCount = 1 /\ OwnedBoxes = {} /\ nhooks = {})

C10_CloseAtMostOnce ==
    /\ [](/\ closeCount <= 1
          /\ closeCount = 1 => (StrongCount = 0 /\ inner = "destroyed" /\ uc = "NULL")
          /\ inner = "destroyed" => closeCount = 1)
    /\ [][last'.op = "drop_again" => closeCount' = closeCount]_vars

\* C10 witness: clones were made and dropped, the instance was closed once,
\* and the destructor ran a second time
C10_Witness ==
    /\ last.op = "drop_again"
    /\ dtorRuns = 2
    /\ closeCount = 1
    /\ \E b \in dropped : b.kind = "hook"

\* the four memory operations of C6 and the native entry point of each
MemOps == {"mem_map", "mem_map_ptr", "mem_unmap", "mem_protect"}

NativeOf(op) ==
    CASE op = "mem_map" -> "uc_mem_map"
      [] op = "mem_map_ptr" -> "uc_mem_map_ptr"
      [] op = "mem_unmap" -> "uc_mem_unmap"
      [] op = "mem_protect" -> "uc_mem_protect"

Unaligned(address, size) == address % 4096 # 0 \/ size % 4096 # 0

\* C6 as stated: an unaligned address or size makes the four operations
\* return ARG by a check of the binding, without a call of the engine.
C6_UpFrontCheck ==
    (last.op \in MemOps /\ Unaligned(last.arg[1], last.arg[2]))
    => (last.res = "ARG" /\ last.native = {})

\* C6 amended: an unaligned address or size (with mem_unmap and mem_protect:
\* of a non-empty range) makes the four operations return ARG, and the ARG is
\* the engine's: the binding checks nothing itself, calls the native entry
\* point and returns its error; the mapped-region table is unchanged.
C6_NativeRefusesUnaligned ==
    [][(/\ last'.op \in MemOps
        /\ Unaligned(last'.arg[1], last'.arg[2])
        /\ last'.op \in {"mem_unmap", "mem_protect"} => last'.arg[2] # 0)
       => (/\ last'.res = "ARG"
           /\ last'.native = {NativeOf(last'.op)}
           /\ npage' = npage)]_vars

\* C6 witness: with a page mapped, an unaligned mem_protect was refused
C6_Witness ==
    /\ last.op = "mem_protect"
    /\ last.arg = <<0, Misalign>>
    /\ last.res = "ARG"
    /\ npage[0].kind = "ram"


\* the addresses a region list covers, and those of [a, a+n)
Cover(regions) ==
    UNION {regions[j][1]..(regions[j][1] + regions[j][2] - 1) : j \in 1..Len(regions)}

Range(a, n) == a..(a + n - 1)

\* the scopes of a scope list that own the box as their read closure
ScopesOf(scopes, box) == {i \in 1..Len(scopes) : scopes[i].read_callback = box}

\* C3: mem_unmap(begin, size) subtracts [begin, begin+size) from every scope:
\* the addresses a scope covers after the call are those it covered before,
\* less the range (none, when the scope is discarded).
C3_ExactSubtraction ==
    [][last'.op = "mem_unmap"
       => \A i \in 1..Len(mmio_callbacks) :
             UNION {Cover(mmio_callbacks'[i2].regions) :
                       i2 \in ScopesOf(mmio_callbacks', mmio_callbacks[i].read_callback)}
             = Cover(mmio_callbacks[i].regions) \ Range(last'.arg[1], last'.arg[2])]_vars

\* C4: a region (b, s), e = b+s, with b < begin and end < e is replaced, in
\* its place in the region list of its scope, by exactly the two regions
\* (b, begin-b) and (end+1, e-end-1); the scope [0x1000,0x3000) unmapped at
\* [0x1800,0x2000) becomes exactly [0x1000,0x1800), [0x2001,0x3000).
C4_MiddleSplitsAtEndPlusOne ==
    [][last'.op = "mem_unmap"
       => LET begin == last'.arg[1]
              end == begin + last'.arg[2]
          IN \A i \in 1..Len(mmio_callbacks) :
               LET before == mmio_callbacks[i].regions
                   same == ScopesOf(mmio_callbacks', mmio_callbacks[i].read_callback)
               IN /\ \A j \in 1..Len(before) :
                       LET b == before[j][1]
                           e == b + before[j][2]
                       IN (b < begin /\ end < e)
                          => \E i2 \in same :
                               LET after == mmio_callbacks'[i2].regions
                               IN \E k \in 1..(Len(after) - 1) :
                                    /\ after[k] = <<b, begin - b>>
                                    /\ after[k + 1] = <<end + 1, e - end - 1>>
                                    /\ \A m \in 1..(k - 1) :
                                          after[m][1] + after[m][2] <= b
                                    /\ \A m \in (k + 2)..Len(after) :
                                          after[m][1] >= e
                  /\ (before = << <<4096, 8192>> >> /\ last'.arg = <<6144, 2048>>)
                     => \E i2 \in same :
                           mmio_callbacks'[i2].regions
                             = << <<4096, 2048>>, <<8193, 4095>> >>]_vars

\* C4 witness: the scope [0x1000,0x3000) after mem_unmap(0x1800, 0x800)
C4_Witness ==
    /\ last.op = "mem_unmap"
    /\ last.arg = <<6144, 2048>>
    /\ Len(mmio_callbacks) = 1
    /\ mmio_callbacks[1].regions = << <<4096, 2048>>, <<8193, 4095>> >>

\* C5: a region (b, s), e = b+s, with begin >= e and begin > b leaves no
\* fragment: it is gone from the region list of its scope, and a scope all
\* of whose regions are of this kind is discarded and its closure dropped.
C5_RegionBeforeRangeIsDropped ==
    [][last'.op = "mem_unmap"
       => LET begin == last'.arg[1]
              Past(r) == begin >= r[1] + r[2] /\ begin > r[1]
          IN \A i \in 1..Len(mmio_callbacks) :
               LET before == mmio_callbacks[i].regions
                   box == mmio_callbacks[i].read_callback
                   same == ScopesOf(mmio_callbacks', box)
               IN /\ \A j \in 1..Len(before) :
                       Past(before[j])
                       => \A i2 \in same :
                            \A k \in 1..Len(mmio_callbacks'[i2].regions) :
                               mmio_callbacks'[i2].regions[k] # before[j]
                  /\ (\A j \in 1..Len(before) : Past(before[j]))
                     => (same = {} /\ box \in dropped')]_vars

\* C5 witness: a successful mem_unmap past an MMIO page discarded the scope
\* and dropped its closure, while the engine still maps the page
C5_Witness ==
    /\ last.op = "mem_unmap"
    /\ last.res = "OK"
    /\ mmio_callbacks = <<>>
    /\ \E p \in Pages :
          /\ npage[p].kind = "mmio"
          /\ npage[p].rud \in dropped
          /\ last.arg[1] >= (p + 1) * PAGE
          /\ \A q \in Pages : q # p => npage[q].kind = "none"

\* C9: reg_read_long chooses the buffer length from the architecture and
\* the register id alone: on X86 16 for XMM0..XMM31, 32 for YMM0..YMM31, 64
\* for ZMM0..ZMM31, 10 for GDTR, IDTR and ST0..ST7; on ARM64 16 for Q0..Q31
\* and V0..V31; any other id on X86 or ARM64 is ARG and any other
\* architecture ARCH, both without a call of the native register read.
C9_LongRegisterLengths ==
    last.op = "reg_read_long"
    => LET r == last.arg[1]
           want == CASE arch = "X86" /\ r \in X86_XMM0..X86_XMM31 -> 16
                     [] arch = "X86" /\ r \in X86_YMM0..X86_YMM31 -> 32
                     [] arch = "X86" /\ r \in X86_ZMM0..X86_ZMM31 -> 64
                     [] arch = "X86" /\ r \in {X86_GDTR, X86_IDTR} -> 10
                     [] arch = "X86" /\ r \in X86_ST0..X86_ST7 -> 10
                     [] arch = "ARM64" /\ r \in ARM64_Q0..ARM64_Q31 -> 16
                     [] arch = "ARM64" /\ r \in ARM64_V0..ARM64_V31 -> 16
                     [] OTHER -> 0
       IN IF want > 0
          THEN /\ last.native = {"uc_reg_read"}
               /\ last.arg[2] = want
          ELSE /\ last.native = {}
               /\ last.res = IF arch \in {"X86", "ARM64"} THEN "ARG" ELSE "ARCH"

\* C9 witness: a YMM register read on X86 returned its 32 bytes
C9_Witness ==
    /\ last.op = "reg_read_long"
    /\ arch = "X86"
    /\ last.res = "OK"
    /\ last.arg = <<X86_YMM0, 32>>

\* C11: every native context blob is freed exactly once: by context_init
\* itself when its save step fails, and then no Context is returned; otherwise
\* by the drop of the Context that holds it, which frees only a non-null
\* pointer and then nulls it. No blob is freed twice, and none is left
\* unfreed once its Context is dropped.
C11_BlobFreedExactlyOnce ==
    /\ [](/\ \A i \in 1..Len(blobs) :
                /\ blobs[i].frees <= 1
                /\ (\A c \in 1..Len(contexts) : contexts[c].blob # i)
                   => blobs[i].frees = 1
          /\ \A c \in 1..Len(contexts) :
                IF contexts[c].drops = 0
                THEN /\ contexts[c].context = contexts[c].blob
                     /\ contexts[c].context # 0
                     /\ blobs[contexts[c].blob].frees = 0
                ELSE /\ contexts[c].context = 0
                     /\ blobs[contexts[c].blob].frees = 1)
    /\ [][(last'.op = "context_init" /\ last'.res # "OK")
          => /\ contexts' = contexts
             /\ \A i \in (Len(blobs) + 1)..Len(blobs') : blobs'[i].frees = 1]_vars
    /\ [][(last'.op = "context_drop" /\ contexts[last'.arg].context = 0)
          => (blobs' = blobs /\ last'.native = {})]_vars

\* C11 witness: one blob was freed by a context_init whose save failed, one
\* Context from context_alloc and one from context_init were dropped, the
\* first of them twice
C11_Witness ==
    /\ last.op = "context_drop"
    /\ Len(blobs) = 3
    /\ Len(contexts) = 2
    /\ contexts[1].blob = 1
    /\ contexts[1].drops = 2
    /\ contexts[2].blob = 3
    /\ contexts[2].drops = 1
    /\ ~blobs[1].saved
    /\ blobs[3].saved
    /\ \A i \in 1..3 : blobs[i].frees = 1

\* C12: pc_read and pc_write select the same register for every
\* architecture, the program counter of its catalog (RIP on X86; MIPS PC = 1,
\* M68K PC = 18, RISC-V PC = 65), and hand it to the 64-bit reg_read and
\* reg_write; for Arch::MAX both panic and call nothing.
C12_ProgramCounterRegister ==
    /\ \A a \in Archs \cup {"MAX"} : pc_read_reg(a) = pc_write_reg(a)
    /\ Discriminant(mips_Register, "PC") = 1
    /\ m68k_Discriminant("PC") = 18
    /\ Discriminant(riscv_Register, "PC") = 65
    /\ last.op \in {"pc_read", "pc_write"}
       => IF arch = "MAX"
          THEN last.res = "PANIC" /\ last.native = {}
          ELSE /\ last.res \in {"OK", "ARG"}
               /\ last.native = IF last.op = "pc_read"
                                THEN {"uc_reg_read"}
                                ELSE {"uc_reg_write"}
               /\ <<last.arg[1], last.arg[2]>>
                    \in {<<"x86", "RIP">>, <<"arm", "PC">>, <<"arm64", "PC">>,
                         <<"mips", "PC">>, <<"sparc", "PC">>, <<"m68k", "PC">>,
                         <<"ppc", "PC">>, <<"riscv", "PC">>}
               /\ (last.arg[1] = "x86") = (arch = "X86")
               /\ (last.arg[1] = "arm") = (arch = "ARM")
               /\ (last.arg[1] = "arm64") = (arch = "ARM64")
               /\ (last.arg[1] = "mips") = (arch = "MIPS")
               /\ (last.arg[1] = "sparc") = (arch = "SPARC")
               /\ (last.arg[1] = "m68k") = (arch = "M68K")
               /\ (last.arg[1] = "ppc") = (arch = "PPC")
               /\ (last.arg[1] = "riscv") = (arch = "RISCV")

\* C12 witness: pc_write on an M68K instance wrote the value to m68k PC
C12_Witness ==
    /\ last.op = "pc_write"
    /\ arch = "M68K"
    /\ last.res = "OK"
    /\ last.arg = <<"m68k", "PC", 1>>

\* C13: when the native open fails, new_with_data returns that error and
\* there is no handle, no hook list, no MMIO-scope list and no native
\* instance: nothing is ever closed or freed for it. When the open succeeds,
\* the hook list and the MMIO-scope list of the new handle are empty.
C13_FailedOpenOwnsNothing ==
    /\ [](caller = "failed"
          => /\ last.op = "new_with_data"
             /\ last.res \in {"ARCH", "MODE"}
             /\ last.native = {"uc_open"}
             /\ inner = "none"
             /\ uc = "NULL"
             /\ closeCount = 0
             /\ dtorRuns = 0
             /\ OwnedBoxes = {}
             /\ nextBox = 1)
    /\ [][last'.op = "new_with_data"
          => /\ (last'.res = "OK") = (caller' = "held")
             /\ (last'.res # "OK") = (caller' = "failed")
             /\ last'.res = "OK"
                => /\ inner' = "alive"
                   /\ uc' = "H"
                   /\ hooks' = <<>>
                   /\ mmio_callbacks' = <<>>]_vars

\* C13 witness: the open was refused for the mode
C13_Witness ==
    /\ caller = "failed"
    /\ last.op = "new_with_data"
    /\ last.res = "MODE"

\* the alias banks of the MIPS catalog: <<prefix, first index, last index,
\* index of the general register the first one names>>
MipsBanks == << <<"V", 0, 1, 2>>, <<"A", 0, 3, 4>>, <<"T", 0, 7, 8>>,
                <<"S", 0, 7, 16>>, <<"T", 8, 9, 24>>, <<"K", 0, 1, 26>>,
                <<"S", 8, 8, 30>> >>

MipsSingles == << <<"ZERO", 0>>, <<"AT", 1>>, <<"GP", 28>>, <<"SP", 29>>,
                  <<"FP", 30>>, <<"RA", 31>> >>

\* the ABI banks of the RISC-V catalog: <<prefix, first index, last index,
\* canonical prefix, index of the register the first one names>>
RiscvBanks == << <<"T", 0, 2, "X", 5>>, <<"S", 0, 1, "X", 8>>,
                 <<"A", 0, 7, "X", 10>>, <<"S", 2, 11, "X", 18>>,
                 <<"T", 3, 6, "X", 28>>, <<"FT", 0, 7, "F", 0>>,
                 <<"FS", 0, 1, "F", 8>>, <<"FA", 0, 7, "F", 10>>,
                 <<"FS", 2, 11, "F", 18>>, <<"FT", 8, 11, "F", 28>> >>

RiscvSingles == << <<"ZERO", 0>>, <<"RA", 1>>, <<"SP", 2>>, <<"GP", 3>>,
                   <<"TP", 4>>, <<"FP", 8>> >>

\* the names a list of banks and a list of singles give
BankNames(banks, singles) ==
    UNION {{banks[k][1] \o ToString(i) : i \in banks[k][2]..banks[k][3]} :
              k \in 1..Len(banks)}
      \cup {singles[k][1] : k \in 1..Len(singles)}

\* a catalog starts at INVALID = 0 and its discriminants are 0, 1, 2, ...
\* in the order of the variants
Dense(catalog) ==
    /\ catalog[1] = <<"INVALID", 0>>
    /\ \A k \in 1..Len(catalog) : catalog[k][2] = k - 1
    /\ \A k, m \in 1..Len(catalog) : catalog[k][1] = catalog[m][1] => k = m

\* C14: in the MIPS and the RISC-V catalog every alias has the value of one
\* canonical register and none a value of its own. MIPS: GPR0..GPR31 are
\* 2..33, ZERO, AT, V0..V1, A0..A3, T0..T7, S0..S7, T8..T9, K0..K1, GP, SP,
\* FP = S8, RA name GPR0..GPR31 in this order, HIi = LOi = ACi, ENDING = 140.
\* RISC-V: X0..X31 are 1..32, F0..F31 are 33..64, PC = 65, ENDING = 66, the
\* ABI names in their usual places. Each catalog starts at INVALID = 0 and is
\* numbered without gaps; the id handed to the engine is that number.
C14_AliasesNameCanonicalRegisters ==
    /\ Dense(mips_Register)
    /\ Dense(riscv_Register)
    /\ \A i \in 0..31 : RegisterId("mips", "GPR" \o ToString(i)) = 2 + i
    /\ \A i \in 0..31 : RegisterId("riscv", "X" \o ToString(i)) = 1 + i
    /\ \A i \in 0..31 : RegisterId("riscv", "F" \o ToString(i)) = 33 + i
    /\ RegisterId("mips", "ENDING") = 140
    /\ RegisterId("riscv", "PC") = 65
    /\ RegisterId("riscv", "ENDING") = 66
    /\ Len(mips_Register) = 141
    /\ Len(riscv_Register) = 67
    /\ \A k \in 1..Len(MipsBanks) :
          \A i \in MipsBanks[k][2]..MipsBanks[k][3] :
             RegisterId("mips", MipsBanks[k][1] \o ToString(i))
               = RegisterId("mips", "GPR" \o ToString(MipsBanks[k][4] + i - MipsBanks[k][2]))
    /\ \A k \in 1..Len(MipsSingles) :
          RegisterId("mips", MipsSingles[k][1])
            = RegisterId("mips", "GPR" \o ToString(MipsSingles[k][2]))
    /\ \A i \in 0..3 :
          /\ RegisterId("mips", "HI" \o ToString(i)) = RegisterId("mips", "AC" \o ToString(i))
          /\ RegisterId("mips", "LO" \o ToString(i)) = RegisterId("mips", "AC" \o ToString(i))
    /\ Aliases(mips_alias)
         = BankNames(MipsBanks, MipsSingles)
           \cup {p \o ToString(i) : p \in {"HI", "LO"}, i \in 0..3}
    /\ \A k \in 1..Len(RiscvBanks) :
          \A i \in RiscvBanks[k][2]..RiscvBanks[k][3] :
             RegisterId("riscv", RiscvBanks[k][1] \o ToString(i))
               = RegisterId("riscv", RiscvBanks[k][4]
                                      \o ToString(RiscvBanks[k][5] + i - RiscvBanks[k][2]))
    /\ \A k \in 1..Len(RiscvSingles) :
          RegisterId("riscv", RiscvSingles[k][1])
            = RegisterId("riscv", "X" \o ToString(RiscvSingles[k][2]))
    /\ Aliases(riscv_alias) = BankNames(RiscvBanks, RiscvSingles)
    /\ Aliases(mips_alias) \cap Variants(mips_Register) = {}
    /\ Aliases(riscv_alias) \cap Variants(riscv_Register) = {}
    /\ last.op = "reg_read_id"
       => LET catalog == IF last.arg[1] = "mips" THEN mips_Register ELSE riscv_Register
          IN /\ last.native = {"uc_reg_read"}
             /\ \E k \in 1..Len(catalog) : catalog[k][2] = last.arg[3]
             /\ last.arg[3] \in 0..(Len(catalog) - 1)

\* C14 witness: a read of the MIPS alias S8 handed the engine the id of
\* GPR30, which FP names too
C14_Witness ==
    /\ last.op = "reg_read_id"
    /\ arch = "MIPS"
    /\ last.res = "OK"
    /\ last.arg = <<"mips", "S8", 32>>
    /\ RegisterId("mips", "FP") = 32

\* C15: during emu_start, also when a closure calls remove_hook or mem_unmap
\* on the instance through its aliasing handle, no boxed closure is freed
\* while it is executing or while the native engine still holds its pointer
\* as the user data of a registered hook or of a mapped MMIO page.
C15_NoClosureFreedWhileInUse ==
    /\ \A i \in 1..Len(stack) : stack[i] \notin dropped
    /\ \A h \in nhooks : h.ud \notin dropped
    /\ \A q \in Pages : npage[q].rud \notin dropped /\ npage[q].wud \notin dropped

\* the seven add_*_hook operations
AddHookOps == {"add_code_hook", "add_block_hook", "add_mem_hook", "add_intr_hook",
               "add_insn_in_hook", "add_insn_out_hook", "add_insn_sys_hook"}

\* C16: when the native hook-add succeeds, the hook list grows by exactly one
\* entry, appended at the end, with the token returned to the caller and the
\* new box; when it fails, the hook list is unchanged and the box is dropped;
\* when add_mem_hook refuses the hook type, the hook list is unchanged and no
\* box is left.
C16_HookListGrowsByOne ==
    [][last'.op \in AddHookOps
       => LET user_data == [kind |-> "hook", id |-> nextBox]
          IN IF last'.res = "OK"
             THEN /\ Len(hooks') = Len(hooks) + 1
                  /\ SubSeq(hooks', 1, Len(hooks)) = hooks
                  /\ hooks'[Len(hooks')] = [tok |-> last'.arg[2], box |-> user_data]
                  /\ \A i \in 1..Len(hooks) : hooks[i].tok # last'.arg[2]
                  /\ user_data \notin dropped'
                  /\ dropped' = dropped
                  /\ \E h \in nhooks' : h.tok = last'.arg[2] /\ h.ud = user_data
             ELSE /\ hooks' = hooks
                  /\ nhooks' = nhooks
                  /\ IF last'.native = {}
                     THEN /\ last'.op = "add_mem_hook"
                          /\ last'.res = "ARG"
                          /\ nextBox' = nextBox
                          /\ dropped' = dropped
                     ELSE dropped' = dropped \cup {user_data}]_vars

\* C16 witness: the third box made was appended behind another hook, after
\* the first box was dropped
C16_Witness ==
    /\ last.op = "add_insn_sys_hook"
    /\ last.res = "OK"
    /\ Len(hooks) = 2
    /\ hooks[2].tok = last.arg[2]
    /\ hooks[2].box.id = 3
    /\ [kind |-> "hook", id |-> 1] \in dropped

\* the three MMIO mapping operations
MmioMapOps == {"mmio_map", "mmio_map_ro", "mmio_map_wo"}

\* C17: on native success mmio_map, mmio_map_ro and mmio_map_wo append
\* exactly one scope, with the single region (address, size) and exactly the
\* closures supplied; on native failure the scope list is unchanged and the
\* supplied closures are dropped.
C17_MmioMapAppendsOneScope ==
    [][last'.op \in MmioMapOps
       => LET rd == last'.arg[3]
              wd == last'.arg[4]
              read_data == IF rd THEN [kind |-> "mmio", id |-> nextBox] ELSE NoBox
              write_data == IF wd
                            THEN [kind |-> "mmio",
                                  id |-> IF rd THEN nextBox + 1 ELSE nextBox]
                            ELSE NoBox
              supplied == {read_data, write_data} \ {NoBox}
          IN /\ last'.op = "mmio_map_ro" => (rd /\ ~wd)
             /\ last'.op = "mmio_map_wo" => (~rd /\ wd)
             /\ last'.native = {"uc_mmio_map"}
             /\ IF last'.res = "OK"
                THEN /\ mmio_callbacks'
                          = Append(mmio_callbacks,
                                   [regions |-> << <<last'.arg[1], last'.arg[2]>> >>,
                                    read_callback |-> read_data,
                                    write_callback |-> write_data])
                     /\ dropped' = dropped
                     /\ supplied \cap dropped' = {}
                ELSE /\ mmio_callbacks' = mmio_callbacks
                     /\ dropped' = dropped \cup supplied]_vars

\* C17 witness: a second scope, with a write closure only, was appended
\* behind a scope that has both closures
C17_Witness ==
    /\ last.op = "mmio_map_wo"
    /\ last.res = "OK"
    /\ Len(mmio_callbacks) = 2
    /\ mmio_callbacks[1].read_callback # NoBox
    /\ mmio_callbacks[1].write_callback # NoBox
    /\ mmio_callbacks[2].read_callback = NoBox
    /\ mmio_callbacks[2].write_callback = [kind |-> "mmio", id |-> 3]
    /\ mmio_callbacks[2].regions = << <<last.arg[1], last.arg[2]>> >>

\* C18: in mmio_map a read closure of None suppresses the read trampoline
\* argument of the native call and a write closure of None the write
\* trampoline argument: the engine holds a callback for a direction of a
\* mapped MMIO page only when it holds a closure for that direction, and it
\* never invokes a trampoline whose user-data pointer is null.
C18_NoneSuppressesTrampoline ==
    /\ \A q \in Pages :
          npage[q].kind = "mmio"
          => /\ (npage[q].rcb # "NULL") = (npage[q].rud # NoBox)
             /\ (npage[q].wcb # "NULL") = (npage[q].wud # NoBox)
    /\ NoBox \notin badInvoke

\* the positions of the scopes that keep a region when [begin, begin+size)
\* is unmapped, in the order of the scope list
Surviving(scopes, begin, size) ==
    SelectSeq([i \in 1..Len(scopes) |-> i],
              LAMBDA i : unmap(scopes[i].regions, begin, size) # <<>>)

\* C19: no scope of the scope list ever has an empty region list: mem_unmap
\* removes every scope left with no region and drops its read and its write
\* closure, and keeps, in their order and with their closures, the scopes
\* that still have a region.
C19_NoEmptyScope ==
    /\ [](\A i \in 1..Len(mmio_callbacks) : mmio_callbacks[i].regions # <<>>)
    /\ [][last'.op = "mem_unmap"
          => LET ks == Surviving(mmio_callbacks, last'.arg[1], last'.arg[2])
                 kept == {ks[k] : k \in 1..Len(ks)}
                 gone == (1..Len(mmio_callbacks)) \ kept
             IN /\ Len(mmio_callbacks') = Len(ks)
                /\ \A k \in 1..Len(ks) :
                      /\ mmio_callbacks'[k].read_callback
                           = mmio_callbacks[ks[k]].read_callback
                      /\ mmio_callbacks'[k].write_callback
                           = mmio_callbacks[ks[k]].write_callback
                      /\ mmio_callbacks'[k].regions # <<>>
                /\ dropped' = dropped \cup
                     (({mmio_callbacks[i].read_callback : i \in gone}
                       \cup {mmio_callbacks[i].write_callback : i \in gone})
                      \ {NoBox})]_vars

\* C19 witness: of two scopes, a successful mem_unmap of the first page
\* removed the scope mapped there, dropping its two closures, and kept the
\* scope of the third page
C19_Witness ==
    /\ last.op = "mem_unmap"
    /\ last.res = "OK"
    /\ last.arg = <<0, PAGE>>
    /\ mmio_callbacks = << [regions |-> << <<2 * PAGE, PAGE>> >>,
                            read_callback |-> [kind |-> "mmio", id |-> 3],
                            write_callback |-> NoBox] >>
    /\ dropped = {[kind |-> "mmio", id |-> 1], [kind |-> "mmio", id |-> 2]}

\* C20: when mem_unmap returns an error, the scope list, the region list of
\* every scope and every MMIO closure are as they were before the call.
C20_FailedUnmapChangesNothing ==
    [][(last'.op = "mem_unmap" /\ last'.res # "OK")
       => (mmio_callbacks' = mmio_callbacks /\ dropped' = dropped)]_vars

\* C21: unmap is idempotent: a second mem_unmap of the same range, right
\* after the first, leaves the region list of every scope (and so the scope
\* list) as the first left it.
C21_UnmapIdempotent ==
    [][(/\ last.op = "mem_unmap"
        /\ last'.op = "mem_unmap"
        /\ last'.arg = last.arg)
       => mmio_callbacks' = mmio_callbacks]_vars

\* the region r lies inside the region q
Inside(r, q) == r[1] >= q[1] /\ r[1] + r[2] <= q[1] + q[2]

\* every region of every scope is non-empty
C22_NonEmpty ==
    \A i \in 1..Len(mmio_callbacks) :
        \A j \in 1..Len(mmio_callbacks[i].regions) :
            mmio_callbacks[i].regions[j][2] > 0

\* the regions of one scope are pairwise disjoint
C22_Disjoint ==
    \A i \in 1..Len(mmio_callbacks) :
        LET r == mmio_callbacks[i].regions
        IN  \A j, k \in 1..Len(r) :
                j # k => Cover(<<r[j]>>) \cap Cover(<<r[k]>>) = {}

\* a scope is created with the single region of its mmio_map call
C22_CreatedWithRange ==
    (last'.op \in MmioMapOps /\ last'.res = "OK")
    => mmio_callbacks'[Len(mmio_callbacks')].regions
           = <<<<last'.arg[1], last'.arg[2]>>>>

\* mem_unmap only shrinks: a region it leaves lies inside a region the same
\* scope had before, and so inside the range the scope was created with
C22_OnlyShrinks ==
    last'.op = "mem_unmap"
    => \A i \in 1..Len(mmio_callbacks') :
           \A j \in 1..Len(mmio_callbacks'[i].regions) :
               \E k \in ScopesOf(mmio_callbacks, mmio_callbacks'[i].read_callback) :
                   \E l \in 1..Len(mmio_callbacks[k].regions) :
                       Inside(mmio_callbacks'[i].regions[j],
                              mmio_callbacks[k].regions[l])

\* mem_unmap leaves no region that contains an address of its range (and, as
\* regions only shrink afterwards, none ever contains one again)
C22_ClearOfUnmapped ==
    last'.op = "mem_unmap"
    => \A i \in 1..Len(mmio_callbacks') :
           Cover(mmio_callbacks'[i].regions)
               \cap Range(last'.arg[1], last'.arg[2]) = {}

\* C22: in every state reached by successful mmio_map calls and arbitrary
\* mem_unmap calls, every region of every scope has a size above zero, lies
\* inside the range its scope was created with, is disjoint from the other
\* regions of its scope, and contains no address of a range unmapped since
\* the scope was created.
C22_RegionsWellFormed ==
    /\ [](C22_NonEmpty /\ C22_Disjoint)
    /\ [][/\ C22_CreatedWithRange
          /\ C22_OnlyShrinks
          /\ C22_ClearOfUnmapped]_vars

====
